---- MODULE Spec2Model ----
(***************************************************************************)
(* The network synthesis engine of backend/mst.py and                      *)
(* backend/build_graph.py: candidate graph construction, the minimum       *)
(* spanning arborescence step, the dead-end pole pruner and the cost       *)
(* aggregation of compute_mst; parse_input of backend/utils.py and the     *)
(* separation filter of backend/candidate_generation.py.                   *)
(*                                                                         *)
(* Units.  Lengths are integers in millimetres (10.0 m = 10000), so that   *)
(* the literal 0.1 m of the builder is 100 and rounding to two decimals    *)
(* (centimetres) is a real operation.  Money is in thousandths of the      *)
(* currency unit, so that (x mm) * (rate per metre) is already in          *)
(* thousandths and a pole cost c is c * 1000.                              *)
(*                                                                         *)
(* Geometry (haversine, Delaunay) is not modelled: the number of           *)
(* synthesized candidates and the entries of the distance matrix that the  *)
(* builder reads are inputs.                                               *)
(***************************************************************************)
EXTENDS Integers, Sequences, FiniteSets, TLC

VARIABLES
    pc,                \* position in compute_mst
    points,            \* request.points, as parse_input receives it
    parse_names,       \* parse_input's list names
    strategy,          \* which candidate generator is running
    candidates,        \* the generator's candidates, in the order of its filter loop
    separation,        \* haversine distance between two candidates
    kept,              \* the filter loop's list kept
    filter_pos,        \* the filter loop's position in candidates
    n_input,           \* len(coords): the number of request points
    source_idx,        \* parse_input's source index
    terminal_indices,  \* parse_input's terminal index list
    pole_indices,      \* compute_mst's pole index list
    pole_start_idx,    \* len(coords)
    dist_matrix,       \* the entries of cdist(...) the builder reads
    DG,                \* the candidate graph
    arbo,              \* the solver's arborescence (the pruner's argument)
    pruned,            \* the pruner's working copy (its local arbo)
    removed,           \* the pruner's loop flag
    leaves,            \* the part of the current pass's leaf list still to visit
    mst,               \* the pruner's return value
    passes,            \* passes of the pruner's while loop in the current call
    calls,             \* how many times the pruner has been called
    first,             \* the result of the first pruner call (for a second call)
    todo,              \* edges of mst the aggregation loop has not visited yet
    edges,             \* the response's edge list
    total_low_m,       \* accumulator, millimetres
    total_high_m,      \* accumulator, millimetres
    estimates,         \* the cost locals of compute_mst, before rounding
    request,           \* request.costs and request.debug, once compute_mst reads them
    response,          \* the returned dictionary
    err                \* the exception that ended the request, if any

vars == <<pc, points, parse_names, strategy, candidates, separation, kept, filter_pos,
          n_input, source_idx, terminal_indices, pole_indices, pole_start_idx,
          dist_matrix, DG, arbo, pruned, removed, leaves, mst, calls, first, passes,
          todo, edges, total_low_m, total_high_m, estimates, request, response, err>>

(***************************************************************************)
(* Program constants                                                       *)
(***************************************************************************)
MAX_POLE_TO_TERMINAL == 100000
MAX_POLE_TO_POLE == 150000
\* the literal 0.1 of "0.1 < d"
MIN_EDGE_LENGTH == 100
\* the literal 100 of "w = d + 100"
POLE_SPAN_PENALTY == 100000
DEFAULT_POLE_COST == 1500
DEFAULT_LOW_COST_M == 8
DEFAULT_HIGH_COST_M == 25
\* generate_fermat_candidates returns no candidate below this many points
MIN_POINTS_FOR_CANDIDATES == 3
MIN_CANDIDATE_SEPARATION == 10000

(***************************************************************************)
(* Bounds of the model                                                     *)
(***************************************************************************)
MaxInput == 3
MaxPoles == 2
\* candidates a generator has before its separation filter
MaxCandidates == 3

\* Distances offered to the pipeline: a service-drop length, a trunk-only
\* length, out of every range.
Dists == {60004, 120006, 200000}
\* Distances around the thresholds of a service drop, and of a trunk span.
DropBoundaryDists == {0, 100, 101, 100000, 100001}
SpanBoundaryDists == {0, 100, 101, 150000, 150001}

NoGraph == [nodes |-> {}, edges |-> {}]
NoResponse == [kind |-> "none"]
NoEstimates == [kind |-> "none"]
NoRequest == [kind |-> "unread"]

(***************************************************************************)
(* networkx.DiGraph, as far as the program uses it                         *)
(***************************************************************************)
\* DG.add_edge(u, v, weight=w, length=d, voltage=volt): adds both endpoints,
\* and replaces the attributes of an edge (u, v) already there.
add_edge(G, u, v, w, d, volt) ==
    [nodes |-> G.nodes \cup {u, v},
     edges |-> {e \in G.edges : ~(e.u = u /\ e.v = v)}
               \cup {[u |-> u, v |-> v, weight |-> w, length |-> d, voltage |-> volt]}]

remove_edge(G, u, v) ==
    [nodes |-> G.nodes, edges |-> {e \in G.edges : ~(e.u = u /\ e.v = v)}]

\* remove_node drops the node and every edge incident to it.
remove_node(G, n) ==
    [nodes |-> G.nodes \ {n}, edges |-> {e \in G.edges : e.u # n /\ e.v # n}]

out_degree(G, n) == Cardinality({e \in G.edges : e.u = n})
in_degree(G, n) == Cardinality({e \in G.edges : e.v = n})
predecessors(G, n) == {e.u : e \in {x \in G.edges : x.v = n}}

RECURSIVE Reach(_, _)
Reach(E, S) ==
    LET N == S \cup {e.v : e \in {x \in E : x.u \in S}}
    IN IF N = S THEN S ELSE Reach(E, N)

\* nx.descendants(G, n): every node reachable from n, n excluded.
descendants(G, n) == Reach(G.edges, {n}) \ {n}

SeqToSet(s) == {s[i] : i \in 1..Len(s)}

(***************************************************************************)
(* build_directed_graph_for_arborescence                                   *)
(***************************************************************************)
\* variant: the range test without its lower bound
AdmissibleNoLowerBound(d, max) == d <= max
Admissible(d, max) == MIN_EDGE_LENGTH < d /\ d <= max

\* variant: a service drop added in both directions
ServiceDropBothWays(G, p, h, d) ==
    IF Admissible(d, MAX_POLE_TO_TERMINAL)
    THEN add_edge(add_edge(G, p, h, d, d, "low"), h, p, d, d, "low")
    ELSE G

\* poles -> terminals (service drops)
ServiceDrop(G, p, h, d) ==
    IF Admissible(d, MAX_POLE_TO_TERMINAL) THEN add_edge(G, p, h, d, d, "low") ELSE G

\* pole <-> pole; the weight is computed before the test
PoleSpan(G, p1, p2, d) ==
    LET w == d + POLE_SPAN_PENALTY
    IN IF Admissible(d, MAX_POLE_TO_POLE)
       THEN add_edge(add_edge(G, p1, p2, w, d, "high"), p2, p1, w, d, "high")
       ELSE G

\* source -> poles (main trunk)
Trunk(G, s, p, d) ==
    IF Admissible(d, MAX_POLE_TO_POLE) THEN add_edge(G, s, p, d, d, "high") ELSE G

\* for p in pole_indices: for h in terminal_indices   (k counts the iterations)
RECURSIVE ServiceDrops(_, _, _, _, _)
ServiceDrops(G, k, T, P, D) ==
    IF k > Len(P) * Len(T) THEN G
    ELSE LET p == P[((k - 1) \div Len(T)) + 1]
             h == T[((k - 1) % Len(T)) + 1]
         IN ServiceDrops(ServiceDrop(G, p, h, D[<<p, h>>]), k + 1, T, P, D)

\* for i in range(len(P)): for j in range(i + 1, len(P))
RECURSIVE PoleSpans(_, _, _, _, _)
PoleSpans(G, i, j, P, D) ==
    IF i > Len(P) THEN G
    ELSE IF j > Len(P) THEN PoleSpans(G, i + 1, i + 2, P, D)
    ELSE PoleSpans(PoleSpan(G, P[i], P[j], D[<<P[i], P[j]>>]), i, j + 1, P, D)

\* for p in pole_indices
RECURSIVE Trunks(_, _, _, _, _)
Trunks(G, k, s, P, D) ==
    IF k > Len(P) THEN G
    ELSE Trunks(Trunk(G, s, P[k], D[<<s, P[k]>>]), k + 1, s, P, D)

build_directed_graph_for_arborescence(s, T, P, D) ==
    Trunks(PoleSpans(ServiceDrops(NoGraph, 1, T, P, D), 1, 2, P, D), 1, s, P, D)

\* The entries of the distance matrix the builder reads.
ReadPairs(s, T, P) ==
    {<<P[i], T[j]>> : i \in 1..Len(P), j \in 1..Len(T)}
    \cup {<<P[x[1]], P[x[2]]>> : x \in {y \in (1..Len(P)) \X (1..Len(P)) : y[1] < y[2]}}
    \cup {<<s, P[i]>> : i \in 1..Len(P)}

(***************************************************************************)
(* nx.minimum_spanning_arborescence(DG, attr="weight", preserve_attrs=True)*)
(* as documented by networkx: a spanning arborescence of DG of minimum     *)
(* total weight, with the edges' attributes kept; NetworkXException when   *)
(* DG has no spanning arborescence; NetworkXPointlessConcept (raised by    *)
(* is_arborescence) when DG has no nodes.  Ties are broken by the          *)
(* library, so every minimum arborescence is a possible result.            *)
(***************************************************************************)
\* Every way to give each node of S exactly one incoming edge of G.
RECURSIVE ParentChoices(_, _)
ParentChoices(G, S) ==
    IF S = {} THEN {{}}
    ELSE LET v == CHOOSE x \in S : TRUE
         IN {m \cup {e} : m \in ParentChoices(G, S \ {v}),
                          e \in {x \in G.edges : x.v = v}}

RECURSIVE TotalWeight(_)
TotalWeight(A) ==
    IF A = {} THEN 0
    ELSE LET e == CHOOSE x \in A : TRUE IN e.weight + TotalWeight(A \ {e})

\* The spanning arborescences of G, as edge sets.
SpanningArborescences(G) ==
    UNION {{A \in ParentChoices(G, G.nodes \ {r}) : Reach(A, {r}) = G.nodes}
           : r \in G.nodes}

MinimumArborescences(G) ==
    LET all == SpanningArborescences(G)
    IN {A \in all : \A B \in all : TotalWeight(A) <= TotalWeight(B)}

(***************************************************************************)
(* Initial states: the request as parse_input and the candidate generator  *)
(* hand it to the rest of compute_mst.                                     *)
(***************************************************************************)
\* parse_input: terminal_indices = [i for i in range(len(coords)) if i != source_idx]
TerminalList(n, s) == SelectSeq([i \in 1..n |-> i - 1], LAMBDA i : i # s)

\* compute_mst: pole_indices = list(range(pole_start_idx, len(extended_coords)))
PoleList(n, k) == [i \in 1..k |-> n + i - 1]

\* generate_fermat_candidates: no candidate for fewer than 3 points
CandidateCounts(n) == IF n < MIN_POINTS_FOR_CANDIDATES THEN {0} ELSE 0..MaxPoles

\* parse_input has returned: compute_mst does not read request.points again
ParseIdle ==
    /\ points = <<>>
    /\ parse_names = <<>>

\* no candidate generator is running
GeneratorIdle ==
    /\ strategy = "none"
    /\ candidates = <<>>
    /\ separation = <<>>
    /\ kept = <<>>
    /\ filter_pos = 0

InitRest ==
    /\ DG = NoGraph
    /\ arbo = NoGraph
    /\ pruned = NoGraph
    /\ removed = FALSE
    /\ leaves = {}
    /\ mst = NoGraph
    /\ calls = 0
    /\ passes = 0
    /\ first = NoGraph
    /\ todo = {}
    /\ edges = <<>>
    /\ total_low_m = 0
    /\ total_high_m = 0
    /\ estimates = NoEstimates
    /\ request = NoRequest
    /\ response = NoResponse
    /\ err = "none"

Init ==
    /\ pc = "build"
    /\ n_input \in 2..MaxInput
    /\ source_idx \in 0..(n_input - 1)
    /\ terminal_indices = TerminalList(n_input, source_idx)
    /\ pole_start_idx = n_input
    /\ \E k \in CandidateCounts(n_input) : pole_indices = PoleList(n_input, k)
    /\ dist_matrix \in [ReadPairs(source_idx, terminal_indices, pole_indices) -> Dists]
    /\ ParseIdle
    /\ GeneratorIdle
    /\ InitRest

(***************************************************************************)
(* compute_mst, step by step                                               *)
(***************************************************************************)
frontVars == <<points, parse_names, strategy, candidates, separation, kept, filter_pos>>

\* DG = build_directed_graph_for_arborescence(...)
BuildGraph ==
    /\ pc = "build"
    /\ DG' = build_directed_graph_for_arborescence(
                 source_idx, terminal_indices, pole_indices, dist_matrix)
    /\ pc' = "solve"
    /\ UNCHANGED <<frontVars, n_input, source_idx, terminal_indices, pole_indices,
                   pole_start_idx,
                   dist_matrix, arbo, pruned, removed, leaves, mst, calls, first, passes,
                   todo, edges, total_low_m, total_high_m, estimates, request,
                   response, err>>

\* arbo = nx.minimum_spanning_arborescence(DG, ...)
Solve ==
    /\ pc = "solve"
    /\ IF DG.nodes = {}
       THEN /\ pc' = "error"
            /\ err' = "NetworkXPointlessConcept"
            /\ arbo' = arbo
       ELSE IF MinimumArborescences(DG) = {}
       THEN /\ pc' = "error"
            /\ err' = "NetworkXException"
            /\ arbo' = arbo
       ELSE /\ \E A \in MinimumArborescences(DG) :
                   arbo' = [nodes |-> DG.nodes, edges |-> A]
            /\ pc' = "prune"
            /\ err' = err
    /\ UNCHANGED <<frontVars, n_input, source_idx, terminal_indices, pole_indices,
                   pole_start_idx,
                   dist_matrix, DG, pruned, removed, leaves, mst, calls, first, passes,
                   todo, edges, total_low_m, total_high_m, estimates, request, response>>

(***************************************************************************)
(* prune_dead_end_pole_branches                                            *)
(***************************************************************************)
inputVars == <<frontVars, n_input, source_idx, terminal_indices, pole_indices,
               pole_start_idx, dist_matrix>>
aggregateVars == <<todo, edges, total_low_m, total_high_m, estimates, request, response>>

\* variant: in_degree in place of out_degree
LeavesByInDegree(G) == {n \in G.nodes : in_degree(G, n) = 0}
\* leaves = [n for n in arbo.nodes() if arbo.out_degree(n) == 0]
LeavesOf(G) == {n \in G.nodes : out_degree(G, n) = 0}

\* variant: pole_indices and terminal_indices exchanged
IsDeadEndArgsSwapped(G, leaf, P, T) ==
    /\ leaf \in SeqToSet(T)
    /\ ~ \E d \in descendants(G, leaf) \cup {leaf} : d \in SeqToSet(P)
\* if leaf in pole_indices: ... if not any(d in terminal_indices for d in descendants)
IsDeadEnd(G, leaf, P, T) ==
    /\ leaf \in SeqToSet(P)
    /\ ~ \E d \in descendants(G, leaf) \cup {leaf} : d \in SeqToSet(T)

RECURSIVE RemoveEdgesFrom(_, _, _)
\* for pred in predecessors: arbo.remove_edge(pred, leaf)
RemoveEdgesFrom(G, preds, leaf) ==
    IF preds = {} THEN G
    ELSE LET pred == CHOOSE x \in preds : TRUE
         IN RemoveEdgesFrom(remove_edge(G, pred, leaf), preds \ {pred}, leaf)

RemoveLeaf(G, leaf) == remove_node(RemoveEdgesFrom(G, predecessors(G, leaf), leaf), leaf)

\* variant: the flag is not set after a removal
FlagNotSet == FALSE
\* removed = True, after a removal
FlagAfterRemoval == TRUE

\* variant: the local name still refers to the caller's graph
CallerGraphAliased(caller, local) == local
\* arbo = arbo.copy(): the local graph is another object than the caller's,
\* which a removal from the local graph leaves as it is
CallerGraph(caller, local) == caller

\* arbo = arbo.copy(); removed = True
PruneCall ==
    /\ pc = "prune"
    /\ pruned' = arbo
    /\ removed' = TRUE
    /\ calls' = calls + 1
    /\ passes' = 0
    /\ leaves' = {}
    /\ pc' = "while"
    /\ UNCHANGED <<inputVars, aggregateVars, DG, arbo, mst, first, err>>

\* variant: the flag is not cleared when a pass starts
FlagNotCleared == TRUE
\* removed = False, first statement of a pass
FlagAtPassStart == FALSE

\* while removed: removed = False; leaves = [...]
PruneWhile ==
    /\ pc = "while"
    /\ removed
    /\ removed' = FlagAtPassStart
    /\ leaves' = LeavesOf(pruned)
    /\ passes' = passes + 1
    /\ pc' = "for"
    /\ UNCHANGED <<inputVars, aggregateVars, DG, arbo, pruned, mst, calls, first, err>>

\* one iteration of "for leaf in leaves"; the list's order is the graph's
\* node order, which the solver decides: any order is possible
PruneLeaf ==
    /\ pc = "for"
    /\ \E leaf \in leaves :
          /\ leaves' = leaves \ {leaf}
          /\ IF IsDeadEnd(pruned, leaf, pole_indices, terminal_indices)
             THEN /\ pruned' = RemoveLeaf(pruned, leaf)
                  /\ removed' = FlagAfterRemoval
             ELSE UNCHANGED <<pruned, removed>>
    /\ arbo' = CallerGraph(arbo, pruned')
    /\ UNCHANGED <<inputVars, aggregateVars, DG, mst, calls, first, passes, pc, err>>

\* the for loop is exhausted: back to the while test
PruneForEnd ==
    /\ pc = "for"
    /\ leaves = {}
    /\ pc' = "while"
    /\ UNCHANGED <<inputVars, aggregateVars, DG, arbo, pruned, removed, leaves, mst,
                   calls, first, passes, err>>

\* the while test fails: return arbo
PruneReturn ==
    /\ pc = "while"
    /\ ~removed
    /\ mst' = pruned
    /\ pc' = "names"
    /\ UNCHANGED <<inputVars, aggregateVars, DG, arbo, pruned, removed, leaves,
                   calls, first, passes, err>>

\* The pruner applied to its own result: prune(prune(T, P, H), P, H).
SecondCall ==
    /\ pc = "names"
    /\ calls = 1
    /\ first' = mst
    /\ arbo' = mst
    /\ pc' = "prune"
    /\ UNCHANGED <<inputVars, aggregateVars, DG, pruned, removed, leaves, mst,
                   calls, passes, err>>

(***************************************************************************)
(* compute_mst: names, edge list, totals, cost estimates, response         *)
(***************************************************************************)
\* used_nodes = {u for u, v in mst.edges()} | {v for u, v in mst.edges()}
used_nodes(G) == {e.u : e \in G.edges} \cup {e.v : e \in G.edges}

\* used_pole_indices = [i for i in pole_indices if i in used_nodes]
used_pole_indices(G, P) == SelectSeq(P, LAMBDA i : i \in used_nodes(G))

PositionIn(seq, x) == CHOOSE i \in 1..Len(seq) : seq[i] = x

\* parse_input's name list: the source is "Power Source", every other point
\* keeps the name it came with (or "Location i+1")
original_names(n, s) ==
    [i \in 0..(n - 1) |->
        IF i = s THEN [kind |-> "Power Source", n |-> 0] ELSE [kind |-> "input", n |-> i]]

\* node_names = dict(enumerate(original_names)); node_names[pole_i] = f"Pole {idx}"
node_names(G, n, s, P) ==
    LET used == used_pole_indices(G, P)
    IN [i \in (0..(n - 1)) \cup SeqToSet(used) |->
           IF i \in SeqToSet(used) THEN [kind |-> "Pole", n |-> PositionIn(used, i)]
           ELSE original_names(n, s)[i]]

\* names.get(i, f"<kind> {i}")
NameOf(names, i, kind) ==
    IF i \in DOMAIN names THEN names[i] ELSE [kind |-> kind, n |-> i]

\* round(x, 2) of a value held in thousandths: the nearest hundredth, a tie
\* going to the even one
Round2(x) ==
    LET q == x \div 10
        r == x % 10
    IN 10 * (IF r < 5 THEN q
             ELSE IF r > 5 THEN q + 1
             ELSE IF q % 2 = 0 THEN q ELSE q + 1)

\* one entry of the response's edge list; extended_coords[u] is written u
EdgeEntry(e, names) ==
    [start |-> [coord |-> e.u, name |-> NameOf(names, e.u, "Node")],
     end |-> [coord |-> e.v, name |-> NameOf(names, e.v, "Node")],
     lengthMeters |-> Round2(e.length),
     voltage |-> e.voltage]

\* variant: every edge counted as low voltage
AddToLowAlways(low, e) == low + e.length
\* if voltage == "low": total_low_m += length_m
AddToLow(low, e) == IF e.voltage = "low" THEN low + e.length ELSE low
\* else: total_high_m += length_m
AddToHigh(high, e) == IF e.voltage = "low" THEN high ELSE high + e.length

\* request.costs: a dictionary that may lack any of its keys
CostKeys == {"poleCost", "lowVoltageCostPerMeter", "highVoltageCostPerMeter"}
CostMaps ==
    {[keys |-> {},
      val |-> [poleCost |-> 0, lowVoltageCostPerMeter |-> 0, highVoltageCostPerMeter |-> 0]],
     [keys |-> {"poleCost"},
      val |-> [poleCost |-> 2000, lowVoltageCostPerMeter |-> 0, highVoltageCostPerMeter |-> 0]],
     [keys |-> CostKeys,
      val |-> [poleCost |-> 1000, lowVoltageCostPerMeter |-> 3, highVoltageCostPerMeter |-> 7]]}

\* costs.get(key, default)
CostGet(c, key, default) == IF key \in c.keys THEN c.val[key] ELSE default

\* the cost calculation of compute_mst
CostEstimates(c, num_poles, low_m, high_m) ==
    LET pole_cost == CostGet(c, "poleCost", DEFAULT_POLE_COST)
        low_cost_m == CostGet(c, "lowVoltageCostPerMeter", DEFAULT_LOW_COST_M)
        high_cost_m == CostGet(c, "highVoltageCostPerMeter", DEFAULT_HIGH_COST_M)
        pole_cost_est == num_poles * pole_cost * 1000
        low_wire_est == low_m * low_cost_m
        high_wire_est == high_m * high_cost_m
        total_wire_est == low_wire_est + high_wire_est
    IN [num_poles |-> num_poles,
        pole_cost_est |-> pole_cost_est,
        low_wire_est |-> low_wire_est,
        high_wire_est |-> high_wire_est,
        total_wire_est |-> total_wire_est,
        total_cost_est |-> pole_cost_est + total_wire_est]

RECURSIVE SortedSeq(_)
\* sorted(S)
SortedSeq(S) ==
    IF S = {} THEN <<>>
    ELSE LET m == CHOOSE x \in S : \A y \in S : x <= y
         IN <<m>> \o SortedSeq(S \ {m})

NodeType(i, s, start) ==
    IF i = s THEN "source" ELSE IF i < start THEN "terminal" ELSE "pole"

\* variant: every row of extended_coords listed, whatever the flag
ReturnNodesAlwaysAll(dbg, G, n, s, P) ==
    [k \in 1..(n + Len(P)) |->
        [index |-> k - 1, coord |-> k - 1,
         name |-> [kind |-> "Candidate", n |-> k - 1], type |-> "pole"]]
\* return_nodes: every row of extended_coords when debug, the used nodes otherwise
ReturnNodes(dbg, G, n, s, P) ==
    IF dbg
    THEN [k \in 1..(n + Len(P)) |->
             [index |-> k - 1, coord |-> k - 1,
              name |-> [kind |-> "Candidate", n |-> k - 1], type |-> "pole"]]
    ELSE LET order == SortedSeq(used_nodes(G))
             names == node_names(G, n, s, P)
         IN [k \in 1..Len(order) |->
                [index |-> order[k], coord |-> order[k],
                 name |-> NameOf(names, order[k], "Unused"),
                 type |-> NodeType(order[k], s, n)]]

\* edges = []; total_low_m = 0.0; total_high_m = 0.0
AggregateStart ==
    /\ pc = "names"
    /\ todo' = mst.edges
    /\ edges' = <<>>
    /\ total_low_m' = 0
    /\ total_high_m' = 0
    /\ pc' = "edges"
    /\ UNCHANGED <<inputVars, DG, arbo, pruned, removed, leaves, mst, calls, first,
                   passes, estimates, request, response, err>>

\* one iteration of "for u, v, data in mst.edges(data=True)"
AggregateEdge ==
    /\ pc = "edges"
    /\ \E e \in todo :
          /\ todo' = todo \ {e}
          /\ edges' = Append(edges, EdgeEntry(e,
                          node_names(mst, n_input, source_idx, pole_indices)))
          /\ total_low_m' = AddToLow(total_low_m, e)
          /\ total_high_m' = AddToHigh(total_high_m, e)
    /\ UNCHANGED <<inputVars, DG, arbo, pruned, removed, leaves, mst, calls, first,
                   passes, estimates, request, response, pc, err>>

\* the cost calculation and the return statement
Return ==
    /\ pc = "edges"
    /\ todo = {}
    /\ \E c \in CostMaps, dbg \in BOOLEAN :
          LET est == CostEstimates(c, Len(used_pole_indices(mst, pole_indices)),
                                   total_low_m, total_high_m)
              names == node_names(mst, n_input, source_idx, pole_indices)
          IN /\ request' = [kind |-> "read", costs |-> c, debug |-> dbg]
             /\ estimates' = est
             /\ response' =
                  [kind |-> "result",
                   edges |-> edges,
                   nodes |-> ReturnNodes(dbg, mst, n_input, source_idx, pole_indices),
                   totalLowVoltageMeters |-> Round2(total_low_m),
                   totalHighVoltageMeters |-> Round2(total_high_m),
                   numPolesUsed |-> est.num_poles,
                   poleCostEstimate |-> Round2(est.pole_cost_est),
                   lowWireCostEstimate |-> Round2(est.low_wire_est),
                   highWireCostEstimate |-> Round2(est.high_wire_est),
                   totalWireCostEstimate |-> Round2(est.total_wire_est),
                   totalCostEstimate |-> Round2(est.total_cost_est),
                   debug |-> [sourceIndex |-> source_idx,
                              sourceName |-> NameOf(names, source_idx, "Power Source"),
                              originalPoints |-> n_input,
                              candidatesGenerated |-> Len(pole_indices),
                              candidatesUsed |-> est.num_poles]]
    /\ pc' = "done"
    /\ UNCHANGED <<inputVars, DG, arbo, pruned, removed, leaves, mst, calls, first,
                   passes, todo, edges, total_low_m, total_high_m, err>>

Next ==
    \/ BuildGraph
    \/ Solve
    \/ PruneCall
    \/ PruneWhile
    \/ PruneLeaf
    \/ PruneForEnd
    \/ PruneReturn
    \/ AggregateStart
    \/ AggregateEdge
    \/ Return

Spec == Init /\ [][Next]_vars

(***************************************************************************)
(* The builder alone, on distances around each of its thresholds           *)
(***************************************************************************)
DropPairs(T, P) == {<<P[i], T[j]>> : i \in 1..Len(P), j \in 1..Len(T)}

InitBuild ==
    /\ pc = "build"
    /\ n_input \in 2..MaxInput
    /\ source_idx \in 0..(n_input - 1)
    /\ terminal_indices = TerminalList(n_input, source_idx)
    /\ pole_start_idx = n_input
    /\ \E k \in CandidateCounts(n_input) : pole_indices = PoleList(n_input, k)
    /\ \E drops \in [DropPairs(terminal_indices, pole_indices) -> DropBoundaryDists],
          spans \in [ReadPairs(source_idx, terminal_indices, pole_indices)
                       \ DropPairs(terminal_indices, pole_indices) -> SpanBoundaryDists] :
          dist_matrix = [x \in ReadPairs(source_idx, terminal_indices, pole_indices) |->
                            IF x \in DOMAIN drops THEN drops[x] ELSE spans[x]]
    /\ ParseIdle
    /\ GeneratorIdle
    /\ InitRest

NextBuild == BuildGraph

SpecBuild == InitBuild /\ [][NextBuild]_vars

(***************************************************************************)
(* The pruner alone, on every arborescence of a candidate graph, and       *)
(* applied a second time to its own result                                 *)
(***************************************************************************)
\* a distance within both ranges, different for every pair
TreeLength(x) == 50004 + 1000 * x[1] + 10 * x[2]

InitTree ==
    /\ pc = "prune"
    /\ n_input \in MIN_POINTS_FOR_CANDIDATES..MaxInput
    /\ source_idx \in 0..(n_input - 1)
    /\ terminal_indices = TerminalList(n_input, source_idx)
    /\ pole_start_idx = n_input
    /\ \E k \in 1..MaxPoles : pole_indices = PoleList(n_input, k)
    /\ \E V \in SUBSET (0..(n_input + Len(pole_indices) - 1)) :
          dist_matrix = [x \in ReadPairs(source_idx, terminal_indices, pole_indices) |->
                            IF x[1] \in V /\ x[2] \in V THEN TreeLength(x) ELSE 200000]
    /\ DG = build_directed_graph_for_arborescence(
                source_idx, terminal_indices, pole_indices, dist_matrix)
    /\ DG.nodes # {}
    /\ \E A \in SpanningArborescences(DG) : arbo = [nodes |-> DG.nodes, edges |-> A]
    /\ ParseIdle
    /\ GeneratorIdle
    /\ pruned = NoGraph
    /\ removed = FALSE
    /\ leaves = {}
    /\ mst = NoGraph
    /\ calls = 0
    /\ passes = 0
    /\ first = NoGraph
    /\ todo = {}
    /\ edges = <<>>
    /\ total_low_m = 0
    /\ total_high_m = 0
    /\ estimates = NoEstimates
    /\ request = NoRequest
    /\ response = NoResponse
    /\ err = "none"

NextTree ==
    \/ PruneCall
    \/ PruneWhile
    \/ PruneLeaf
    \/ PruneForEnd
    \/ PruneReturn
    \/ SecondCall

SpecTree == InitTree /\ [][NextTree]_vars

\* The pruner is sequential code: whenever a next statement exists it runs.
SpecTreeFair == SpecTree /\ WF_vars(NextTree)

(***************************************************************************)
(* parse_input (backend/utils.py)                                          *)
(*                                                                         *)
(* A point is a record [lat, lng, name]; coordinates are whole degrees and *)
(* name is the request's string, or NoName where the request has none.     *)
(***************************************************************************)
MIN_POINTS == 2
MAX_LAT == 90
MAX_LNG == 180
\* source_idx = None
NoSource == -1
\* p.get("name") is None
NoName == "<None>"
CANONICAL_SOURCE_NAME == "Power Source"

SOURCE_KEYWORDS ==
    {"power source", "powersource", "source", "substation", "main source",
     "primary", "generator", "grid tie", "utility"}

\* Request points offered to parse_input: latitudes and longitudes on and
\* beyond the limits, names that match a keyword only after lower(), inside
\* another word, not at all, or are missing.
LatSamples == {90, 91}
LngSamples == {-180, -181}
NameSamples == {NoName, " House 1 ", "Resource Center", "SUBSTATION A", "utility"}
PointSamples == [lat : LatSamples, lng : LngSamples, name : NameSamples]

RECURSIVE Strip(_)
\* str.strip(), for blanks
Strip(str) ==
    IF Len(str) = 0 THEN str
    ELSE IF SubSeq(str, 1, 1) = " " THEN Strip(SubSeq(str, 2, Len(str)))
    ELSE IF SubSeq(str, Len(str), Len(str)) = " " THEN Strip(SubSeq(str, 1, Len(str) - 1))
    ELSE str

LowerChar(c) ==
    CASE c = "A" -> "a" [] c = "B" -> "b" [] c = "C" -> "c" [] c = "D" -> "d"
      [] c = "E" -> "e" [] c = "F" -> "f" [] c = "G" -> "g" [] c = "H" -> "h"
      [] c = "I" -> "i" [] c = "J" -> "j" [] c = "K" -> "k" [] c = "L" -> "l"
      [] c = "M" -> "m" [] c = "N" -> "n" [] c = "O" -> "o" [] c = "P" -> "p"
      [] c = "Q" -> "q" [] c = "R" -> "r" [] c = "S" -> "s" [] c = "T" -> "t"
      [] c = "U" -> "u" [] c = "V" -> "v" [] c = "W" -> "w" [] c = "X" -> "x"
      [] c = "Y" -> "y" [] c = "Z" -> "z" [] OTHER -> c

RECURSIVE Lower(_)
\* str.lower()
Lower(str) ==
    IF Len(str) = 0 THEN str
    ELSE LowerChar(SubSeq(str, 1, 1)) \o Lower(SubSeq(str, 2, Len(str)))

\* kw in name_lower
Contains(kw, str) ==
    \E i \in 1..(Len(str) - Len(kw) + 1) : SubSeq(str, i, i + Len(kw) - 1) = kw

\* name = str(raw_name).strip() if raw_name is not None else f"Location {i + 1}"
PointName(p, i) ==
    IF p.name # NoName THEN Strip(p.name) ELSE "Location " \o ToString(i + 1)

\* any(kw in name_lower for kw in SOURCE_KEYWORDS) or "source" in name_lower
IsSourceName(name) ==
    LET name_lower == Lower(name)
    IN (\E kw \in SOURCE_KEYWORDS : Contains(kw, name_lower))
          \/ Contains("source", name_lower)

\* not (-90 <= lat <= 90) or not (-180 <= lng <= 180)
InvalidCoordinates(p) ==
    ~ (-MAX_LAT <= p.lat /\ p.lat <= MAX_LAT) \/ ~ (-MAX_LNG <= p.lng /\ p.lng <= MAX_LNG)

\* variant: a later match replaces the source
SourceOnMatchLast(src, i) == i
\* if source_idx is not None: (warning) else: source_idx = i
SourceOnMatch(src, i) == IF src # NoSource THEN src ELSE i

RECURSIVE ParseLoop(_, _, _, _)
\* for i, p in enumerate(points): ...   (i counts from 0, sequences from 1)
ParseLoop(pts, i, nms, src) ==
    IF i = Len(pts) THEN [ok |-> TRUE, names |-> nms, source_idx |-> src]
    ELSE LET p == pts[i + 1]
             name == PointName(p, i)
         IN IF InvalidCoordinates(p)
            THEN [ok |-> FALSE, names |-> nms, source_idx |-> src]
            ELSE IF IsSourceName(name)
            THEN LET chosen == SourceOnMatch(src, i)
                 IN ParseLoop(pts, i + 1,
                              IF chosen = i
                              THEN Append(nms, CANONICAL_SOURCE_NAME)
                              ELSE Append(nms, name),
                              chosen)
            ELSE ParseLoop(pts, i + 1, Append(nms, name), src)

\* coords, terminal_indices, source_idx, names, costs = parse_input(request)
ParseInput ==
    /\ pc = "parse"
    /\ IF Len(points) < MIN_POINTS
       THEN /\ pc' = "error"
            /\ err' = "ValueError"
            /\ UNCHANGED <<parse_names, source_idx, terminal_indices, n_input>>
       ELSE LET r == ParseLoop(points, 0, <<>>, NoSource)
            IN IF ~ r.ok
               THEN /\ pc' = "error"
                    /\ err' = "ValueError"
                    /\ UNCHANGED <<parse_names, source_idx, terminal_indices, n_input>>
               ELSE LET s == IF r.source_idx = NoSource THEN 0 ELSE r.source_idx
                    IN /\ source_idx' = s
                       /\ parse_names' = IF r.source_idx = NoSource
                                         THEN [r.names EXCEPT ![1] = CANONICAL_SOURCE_NAME]
                                         ELSE r.names
                       /\ n_input' = Len(points)
                       /\ terminal_indices' = TerminalList(Len(points), s)
                       /\ pc' = "parsed"
                       /\ err' = err
    /\ UNCHANGED <<points, strategy, candidates, separation, kept, filter_pos, pole_indices,
                   pole_start_idx, dist_matrix, DG, arbo, pruned, removed, leaves, mst,
                   calls, first, passes, aggregateVars>>

InitParse ==
    /\ pc = "parse"
    /\ \E n \in 0..MaxInput : points \in [1..n -> PointSamples]
    /\ parse_names = <<>>
    /\ n_input = 0
    /\ source_idx = NoSource
    /\ terminal_indices = <<>>
    /\ pole_indices = <<>>
    /\ pole_start_idx = 0
    /\ dist_matrix = <<>>
    /\ GeneratorIdle
    /\ InitRest

NextParse == ParseInput

SpecParse == InitParse /\ [][NextParse]_vars

(***************************************************************************)
(* generate_voronoi_candidates and generate_fermat_candidates              *)
(* (backend/candidate_generation.py): the return paths and the greedy      *)
(* separation filter.  A candidate is a record [id, lat]; the haversine    *)
(* distance of two candidates is an input, separation[<<a, b>>] for ids    *)
(* a < b.                                                                  *)
(***************************************************************************)
\* Distances offered to the filter: coincident, just below and on the limit.
SepSamples == {0, 9999, 10000}
LatKeys == {0, 1}

CandidatePairs(r) == {x \in (1..r) \X (1..r) : x[1] < x[2]}

\* haversine_vec(np.array([pt]), kept_array)[0], one entry
SepBetween(sep, a, b) ==
    IF a = b THEN 0 ELSE IF a < b THEN sep[<<a, b>>] ELSE sep[<<b, a>>]

\* Every order np.argsort(candidates[:, 0]) can give: ascending latitude,
\* equal latitudes in any order.
SortedByLatitude(cands) ==
    {o \in [1..Len(cands) -> SeqToSet(cands)] :
        /\ \A c \in SeqToSet(cands) : \E i \in 1..Len(cands) : o[i] = c
        /\ \A i \in 1..(Len(cands) - 1) : o[i].lat <= o[i + 1].lat}

\* variant: np.any in place of np.all
FarFromSomeKept(sep, pt, kept_array) ==
    \E k \in 1..Len(kept_array) :
        SepBetween(sep, pt.id, kept_array[k].id) >= MIN_CANDIDATE_SEPARATION
\* np.all(dists_to_kept >= MIN_CANDIDATE_SEPARATION)
FarFromAllKept(sep, pt, kept_array) ==
    \A k \in 1..Len(kept_array) :
        SepBetween(sep, pt.id, kept_array[k].id) >= MIN_CANDIDATE_SEPARATION

\* Does the function return before its filter loop?  Voronoi returns on
\* len(candidates) <= 1, Fermat skips the loop unless len(candidates) > 1;
\* both return an empty array for fewer than 3 points.
ReturnsUnfiltered(strat, n, cands) ==
    \/ n < MIN_POINTS_FOR_CANDIDATES
    \/ Len(cands) = 0
    \/ IF strat = "voronoi" THEN Len(cands) <= 1 ELSE ~ (Len(cands) > 1)

\* the function up to its filter loop
GenerateStart ==
    /\ pc = "generate"
    /\ IF ReturnsUnfiltered(strategy, n_input, candidates)
       THEN /\ candidates' = IF n_input < MIN_POINTS_FOR_CANDIDATES THEN <<>> ELSE candidates
            /\ pc' = "generated"
            /\ UNCHANGED <<kept, filter_pos>>
       ELSE /\ candidates' \in SortedByLatitude(candidates)
            /\ kept' = <<>>
            /\ filter_pos' = 1
            /\ pc' = "filter"
    /\ UNCHANGED <<points, parse_names, strategy, separation, n_input, source_idx,
                   terminal_indices, pole_indices, pole_start_idx, dist_matrix, DG, arbo,
                   pruned, removed, leaves, mst, calls, first, passes, aggregateVars, err>>

\* one iteration of "for pt in candidates"
FilterStep ==
    /\ pc = "filter"
    /\ filter_pos <= Len(candidates)
    /\ LET pt == candidates[filter_pos]
       IN kept' = IF Len(kept) = 0 THEN <<pt>>
                  ELSE IF FarFromAllKept(separation, pt, kept) THEN Append(kept, pt)
                  ELSE kept
    /\ filter_pos' = filter_pos + 1
    /\ UNCHANGED <<pc, points, parse_names, strategy, candidates, separation, n_input,
                   source_idx, terminal_indices, pole_indices, pole_start_idx, dist_matrix,
                   DG, arbo, pruned, removed, leaves, mst, calls, first, passes,
                   aggregateVars, err>>

\* candidates = np.array(kept); return candidates
FilterEnd ==
    /\ pc = "filter"
    /\ filter_pos > Len(candidates)
    /\ candidates' = kept
    /\ pc' = "generated"
    /\ UNCHANGED <<points, parse_names, strategy, separation, kept, filter_pos, n_input,
                   source_idx, terminal_indices, pole_indices, pole_start_idx, dist_matrix,
                   DG, arbo, pruned, removed, leaves, mst, calls, first, passes,
                   aggregateVars, err>>

\* The generator's input: the points' count and what the geometry yields
\* (Voronoi vertices after the distance mask and np.unique, which leaves no
\* two equal rows; one Fermat point per Delaunay triangle, equal rows allowed).
InitGenerate ==
    /\ pc = "generate"
    /\ strategy \in {"voronoi", "fermat"}
    /\ n_input \in 2..MaxInput
    /\ \E r \in 0..MaxCandidates :
          /\ r > 0 => n_input >= MIN_POINTS_FOR_CANDIDATES
          /\ \E lat \in [1..r -> LatKeys] :
                candidates = [i \in 1..r |-> [id |-> i, lat |-> lat[i]]]
          /\ separation \in [CandidatePairs(r) -> SepSamples]
    /\ strategy = "voronoi" => \A x \in DOMAIN separation : separation[x] # 0
    /\ kept = <<>>
    /\ filter_pos = 0
    /\ source_idx = 0
    /\ terminal_indices = TerminalList(n_input, source_idx)
    /\ pole_indices = <<>>
    /\ pole_start_idx = n_input
    /\ dist_matrix = <<>>
    /\ ParseIdle
    /\ InitRest

NextGenerate ==
    \/ GenerateStart
    \/ FilterStep
    \/ FilterEnd

SpecGenerate == InitGenerate /\ [][NextGenerate]_vars

(***************************************************************************)
(* Properties                                                              *)
(***************************************************************************)
Poles == SeqToSet(pole_indices)
Terminals == SeqToSet(terminal_indices)

\* the nodes of G from which no terminal is reached (the node itself counted)
ServesNoTerminal(G, n) == (descendants(G, n) \cup {n}) \cap Terminals = {}

RootsOf(G) == {n \in G.nodes : in_degree(G, n) = 0}

\* the edges of G on the path from the root to n
PathTo(G, n) == {e \in G.edges : n \in Reach(G.edges, {e.v})}

RECURSIVE SumLength(_)
SumLength(E) ==
    IF E = {} THEN 0
    ELSE LET e == CHOOSE x \in E : TRUE IN e.length + SumLength(E \ {e})

\* C1: the tree returned by the pruner holds no pole whose descendants, the
\* pole included, lack a terminal; and every leaf left is the source, a
\* terminal, or not a pole.
C1_NoDeadEndPoleLeft ==
    pc = "names" =>
        /\ \A n \in mst.nodes \cap Poles : ~ServesNoTerminal(mst, n)
        /\ \A l \in LeavesOf(mst) : l = source_idx \/ l \in Terminals \/ l \notin Poles

\* a call that removed a dead-end branch and kept a pole that serves a terminal
C1_Witness ==
    /\ pc = "names"
    /\ calls = 1
    /\ mst.nodes # arbo.nodes
    /\ mst.nodes \cap Poles # {}

C2_Kept ==
    pc \in {"while", "for", "names"} =>
        \A n \in arbo.nodes :
            ~ServesNoTerminal(arbo, n) \/ n \in Terminals =>
                /\ n \in pruned.nodes
                /\ PathTo(arbo, n) \subseteq pruned.edges

C2_Removal ==
    pruned' # pruned /\ pc = "for" =>
        \E n \in pruned.nodes :
            /\ pruned'.nodes = pruned.nodes \ {n}
            /\ pruned'.edges = {e \in pruned.edges : e.v # n}
            /\ n \in Poles
            /\ n \notin Terminals
            /\ out_degree(pruned, n) = 0
            /\ ServesNoTerminal(pruned, n)
            /\ ServesNoTerminal(arbo, n)

\* C2: every step of the pruning loop removes one pole that has no outgoing
\* edge and no terminal in its subtree; no terminal and no pole with a
\* terminal descendant in the input is ever removed, so every terminal of the
\* input and its whole path from the root stay in the tree.
C2_OnlyDeadEndPolesRemoved == [](C2_Kept) /\ [][C2_Removal]_vars

\* a finished call that removed a node from a tree holding a terminal
C2_Witness ==
    /\ pc = "names"
    /\ calls = 1
    /\ mst.nodes # arbo.nodes
    /\ arbo.nodes \cap Terminals # {}

\* C3: in the candidate graph every pole->terminal edge has a length in
\* (0.1 m, MAX_POLE_TO_TERMINAL], every pole<->pole and source->pole edge a
\* length in (0.1 m, MAX_POLE_TO_POLE], and a pair at distance 0 has no edge.
C3_EdgeLengthsInRange ==
    pc = "solve" =>
        /\ \A e \in DG.edges :
              /\ e.u \in Poles /\ e.v \in Terminals =>
                    MIN_EDGE_LENGTH < e.length /\ e.length <= MAX_POLE_TO_TERMINAL
              /\ e.u \in Poles \cup {source_idx} /\ e.v \in Poles =>
                    MIN_EDGE_LENGTH < e.length /\ e.length <= MAX_POLE_TO_POLE
        /\ \A x \in DOMAIN dist_matrix :
              dist_matrix[x] = 0 =>
                 ~ \E e \in DG.edges : {e.u, e.v} = {x[1], x[2]}

\* a graph built from a matrix with a coincident pair, a service drop of
\* exactly the longest length and a trunk span of exactly the longest length
C3_Witness ==
    /\ pc = "solve"
    /\ \E x \in DOMAIN dist_matrix : dist_matrix[x] = 0
    /\ \E e \in DG.edges : e.voltage = "low" /\ e.length = MAX_POLE_TO_TERMINAL
    /\ \E e \in DG.edges : e.voltage = "high" /\ e.length = MAX_POLE_TO_POLE

\* C4: in the candidate graph no edge leaves a terminal and no edge enters
\* the source.
C4_TerminalsSinkSourceRoot ==
    pc = "solve" =>
        \A e \in DG.edges : e.u \notin Terminals /\ e.v # source_idx

\* a graph holding a service drop, a pole-to-pole span and a trunk edge
C4_Witness ==
    /\ pc = "solve"
    /\ \E e \in DG.edges : e.u \in Poles /\ e.v \in Terminals
    /\ \E e \in DG.edges : e.u \in Poles /\ e.v \in Poles
    /\ \E e \in DG.edges : e.u = source_idx /\ e.v \in Poles

\* the nodes of the candidate graph the source does not reach
Unreachable == DG.nodes \ Reach(DG.edges, {source_idx})

\* C5: when the candidate graph holds a node the source does not reach, the
\* solver does not fail, the unreachable nodes are absent from its tree, and
\* compute_mst returns a normal result.
C5_UnreachableIsNoError ==
    pc \notin {"build", "solve"} /\ Unreachable # {} =>
        /\ pc # "error"
        /\ arbo.nodes \cap Unreachable = {}

\* C6: when the candidate graph has no edge, compute_mst raises nothing and
\* its response has no edge.
C6_EmptyGraphIsNoError ==
    pc \notin {"build", "solve"} /\ DG.edges = {} =>
        /\ pc # "error"
        /\ pc = "done" => response.edges = <<>>

\* C7: the totals are the sums of the per-edge contributions, each edge of
\* the pruned tree counted once: low metres, high metres, poles used, and
\* the total cost before rounding.
C7_TotalsAreSums ==
    pc = "done" =>
        LET low == SumLength({e \in mst.edges : e.voltage = "low"})
            high == SumLength({e \in mst.edges : e.voltage # "low"})
            polesUsed == Cardinality({p \in Poles :
                             \E e \in mst.edges : e.u = p \/ e.v = p})
            c == request.costs
        IN /\ total_low_m = low
           /\ total_high_m = high
           /\ estimates.num_poles = polesUsed
           /\ response.numPolesUsed = polesUsed
           /\ estimates.total_cost_est =
                  CostGet(c, "poleCost", DEFAULT_POLE_COST) * 1000 * polesUsed
                  + low * CostGet(c, "lowVoltageCostPerMeter", DEFAULT_LOW_COST_M)
                  + high * CostGet(c, "highVoltageCostPerMeter", DEFAULT_HIGH_COST_M)
           /\ Len(response.edges) = Cardinality(mst.edges)
           /\ \A e \in mst.edges :
                 Cardinality({i \in 1..Len(response.edges) :
                     /\ response.edges[i].start.coord = e.u
                     /\ response.edges[i].end.coord = e.v}) = 1

\* a response for a tree with service drops and trunk edges, a used pole and
\* a candidate that is not used
C7_Witness ==
    /\ pc = "done"
    /\ \E e \in mst.edges : e.voltage = "low"
    /\ \E e \in mst.edges : e.voltage = "high"
    /\ estimates.num_poles > 0
    /\ estimates.num_poles < Len(pole_indices)

\* C8: pruning the pruned tree again returns the same nodes, edges and
\* attributes.
C8_PruneIdempotent ==
    pc = "names" /\ calls = 2 => mst = first

\* a second call on a tree from which the first call removed a branch
C8_Witness ==
    /\ pc = "names"
    /\ calls = 2
    /\ first.nodes # DG.nodes
    /\ first.edges # {}

\* C9: in the pruned tree of compute_mst every node but the root has one
\* incoming edge, and every terminal in it is reached from the source.
C9_TerminalsReachedFromSource ==
    pc \in {"names", "edges", "done"} =>
        /\ \A n \in mst.nodes : in_degree(mst, n) <= 1
        /\ Cardinality(RootsOf(mst)) <= 1
        /\ \A t \in mst.nodes \cap Terminals :
              t \in Reach(mst.edges, {source_idx})

\* the poles of the solver's tree that serve no terminal
DeadEndPoles == {p \in arbo.nodes \cap Poles : ServesNoTerminal(arbo, p)}

InResponseEdges(p) ==
    \E i \in 1..Len(response.edges) :
        response.edges[i].start.coord = p \/ response.edges[i].end.coord = p

InResponseNodes(p) ==
    \E i \in 1..Len(response.nodes) : response.nodes[i].index = p

\* C10 as stated: a pole of the arborescence with no path to a terminal is
\* an endpoint of no edge of the response and no entry of its node list.
C10_DeadEndPoleNowhere ==
    pc = "done" =>
        \A p \in DeadEndPoles : ~InResponseEdges(p) /\ ~InResponseNodes(p)

\* C10, amended: such a pole is an endpoint of no edge of the response, and
\* no entry of its node list when the request's debug flag is false.
C10_DeadEndPoleNotInOutput ==
    pc = "done" =>
        \A p \in DeadEndPoles :
            /\ ~InResponseEdges(p)
            /\ ~request.debug => ~InResponseNodes(p)

\* a response without debug for a tree that had a dead-end pole and keeps edges
C10_Witness ==
    /\ pc = "done"
    /\ ~request.debug
    /\ DeadEndPoles # {}
    /\ response.edges # <<>>

\* C11: parse_input returns exactly one source index inside the point list:
\* the first point whose name matches a source keyword, or index 0 when no
\* name matches; a later match never replaces it; the chosen point's name is
\* "Power Source"; the terminal list is every other index in ascending
\* order and never holds the source.
MatchingIndices ==
    {i \in 0..(Len(points) - 1) : IsSourceName(PointName(points[i + 1], i))}

C11_SourceIsFirstMatch ==
    pc = "parsed" =>
        /\ source_idx \in 0..(Len(points) - 1)
        /\ IF MatchingIndices = {}
           THEN source_idx = 0
           ELSE /\ source_idx \in MatchingIndices
                /\ \A i \in MatchingIndices : source_idx <= i
        /\ Len(parse_names) = Len(points)
        /\ parse_names[source_idx + 1] = "Power Source"
        /\ Len(terminal_indices) = Len(points) - 1
        /\ \A k \in 1..(Len(terminal_indices) - 1) :
              terminal_indices[k] < terminal_indices[k + 1]
        /\ SeqToSet(terminal_indices) = (0..(Len(points) - 1)) \ {source_idx}

\* three points, the second and the third both match: the second is the source
C11_Witness ==
    /\ pc = "parsed"
    /\ MatchingIndices = {1, 2}
    /\ source_idx = 1

\* C12: no two candidates a generator returns are closer than
\* MIN_CANDIDATE_SEPARATION, on every return path of both generators; the
\* greedy filter keeps that true of its list kept after each candidate.
PairwiseSeparated(seq) ==
    \A i \in 1..Len(seq) : \A j \in 1..Len(seq) :
        i # j => SepBetween(separation, seq[i].id, seq[j].id) >= MIN_CANDIDATE_SEPARATION

C12_CandidatesSeparated ==
    /\ pc = "filter" => PairwiseSeparated(kept)
    /\ pc = "generated" => PairwiseSeparated(candidates)

\* three Fermat points, one of them dropped by the filter, two returned
C12_Witness ==
    /\ pc = "generated"
    /\ strategy = "fermat"
    /\ filter_pos = 4
    /\ Len(candidates) = 2

\* C13: the response holds every synthesized candidate node and the solver
\* diagnostics (source index and name, input point count, candidates
\* generated, candidates used) only when request.debug is true; when it is
\* false the node list holds exactly the nodes the pruned tree uses, each
\* typed source, terminal or pole by its index, and no diagnostics are
\* returned.
Diagnostics ==
    {"sourceIndex", "sourceName", "originalPoints", "candidatesGenerated",
     "candidatesUsed"}

HasDiagnostics ==
    /\ "debug" \in DOMAIN response
    /\ Diagnostics \subseteq DOMAIN response.debug

NodeIndices == {response.nodes[k].index : k \in 1..Len(response.nodes)}

C13_DiagnosticsOnlyWhenDebug ==
    pc = "done" =>
        /\ request.debug =>
              /\ Poles \subseteq NodeIndices
              /\ HasDiagnostics
        /\ ~ request.debug =>
              /\ NodeIndices = used_nodes(mst)
              /\ \A k \in 1..Len(response.nodes) :
                    response.nodes[k].type =
                        IF response.nodes[k].index = source_idx THEN "source"
                        ELSE IF response.nodes[k].index < n_input THEN "terminal"
                        ELSE "pole"
              /\ "debug" \notin DOMAIN response

\* C14: the pruner works on a copy: no step of a call changes the nodes,
\* the edges or the edge attributes of the arborescence passed in, whatever
\* is removed from the tree it returns.
PrunerRunning == pc \in {"prune", "while", "for"}

C14_ArgumentUnchanged == [][PrunerRunning => arbo' = arbo]_vars

\* the call has returned a tree smaller than its argument
C14_Witness ==
    /\ pc = "names"
    /\ calls = 1
    /\ mst.nodes # arbo.nodes
    /\ mst.edges # arbo.edges

\* C15: the pruning loop terminates on a finite tree.  A pass removes only
\* nodes, and its flag says whether it removed one; the loop starts another
\* pass only after a pass that removed a node and exits after a pass that
\* removed none, so after k passes at least k - 1 nodes are gone, the loop
\* makes at most (number of pole nodes of the tree + 1) passes, and every
\* call returns.
InPrunerLoop == pc \in {"while", "for"}

NodesRemoved == Cardinality(arbo.nodes) - Cardinality(pruned.nodes)

C15_PassBound ==
    InPrunerLoop =>
        /\ passes <= Cardinality(arbo.nodes \cap Poles) + 1
        /\ NodesRemoved >= (IF removed THEN passes ELSE passes - 1)
        /\ pruned.nodes \subseteq arbo.nodes
        /\ arbo.nodes \ pruned.nodes \subseteq Poles

C15_PassStep ==
    /\ (pc = "for" /\ pc' = "for") =>
          /\ pruned'.nodes \subseteq pruned.nodes
          /\ removed' = (removed \/ pruned'.nodes # pruned.nodes)
    /\ (pc = "while" /\ pc' = "for") =>
          /\ removed
          /\ ~ removed'
          /\ pruned' = pruned
          /\ passes' = passes + 1
    /\ (pc = "while" /\ ~ removed) => (pc' = "names" /\ mst' = pruned)

C15_LoopTerminates ==
    /\ [](C15_PassBound)
    /\ [][C15_PassStep]_vars
    /\ (pc = "prune") ~> (pc = "names")

\* a chain of dead-end poles: one pass for each pole, and the pass that
\* finds nothing to remove
C15_Witness ==
    /\ pc = "names"
    /\ passes = Cardinality(arbo.nodes \cap Poles) + 1
    /\ passes >= 3

====
